---- MODULE Spec2Model ----
(***************************************************************************)
(* A model of pyslm/hatching/hatching.py: the Hatcher recipe (contour      *)
(* offsets, hatch generation, clipping, re-ordering by tag) and the three  *)
(* hatch generators.                                                       *)
(*                                                                         *)
(* Lengths are integers in units of 1e-6 mm, the size of the nudge that    *)
(* Hatcher.hatch adds to the first offset (line 753), so 0.08 mm = 80000.  *)
(* Angles are integers in degrees.  A numpy array is a nested sequence: an *)
(* (n x 2 x 3) array is a sequence of n pairs of <<x, y, z>> rows.         *)
(* Boundary rings are axis-aligned rectangles given by their four corners, *)
(* which is what keeps offsetting and clipping computable on integers.     *)
(***************************************************************************)
EXTENDS Integers, Sequences, FiniteSets, TLC

\* ------------------------------------------------------------------ bounds
MaxContours == 2
MaxLayers == 2
MaxHalfSide == 4
MaxPointDistance == 2

\* ------------------------------------------------------- program constants
EPS == 1
DefaultLength == 80000
DefaultHatchAngle == 45
DefaultContours == 1
DefaultScaleFactor == 100000
MicronLength == 1000

\* --------------------------------------------------------------- numerics
Max2(a, b) == IF a < b THEN b ELSE a
SetMin(S) == CHOOSE m \in S : \A e \in S : m <= e
SetMax(S) == CHOOSE m \in S : \A e \in S : m >= e

\* floor and ceiling of a / b for any b # 0
FloorDiv(a, b) == IF b > 0 THEN a \div b ELSE (-a) \div (-b)
CeilDiv(a, b) == -FloorDiv(-a, b)
\* a / b rounded to the nearest integer (b > 0)
RoundDiv(a, b) == FloorDiv(2 * a + b, 2 * b)

RECURSIVE SqrtFrom(_, _)
SqrtFrom(n, k) == IF k * k >= n THEN k ELSE SqrtFrom(n, k + 1)
\* np.sqrt at unit resolution, rounded up so that the square built on the
\* radius still wraps the bounding circle
SqrtUp(n) == SqrtFrom(n, 0)

\* len(np.arange(start, stop, step)) for step # 0
ArangeLenMut(start, stop, step) == Max2(1, CeilDiv(stop - start, step))
ArangeLen(start, stop, step) == Max2(0, CeilDiv(stop - start, step))
\* np.arange(start, stop, step): start + k * step
ArangeMut(start, stop, step) ==
    [k \in 1..(ArangeLen(start, stop, step) - 1) |-> start + (k - 1) * step]
Arange(start, stop, step) ==
    [k \in 1..ArangeLen(start, stop, step) |-> start + (k - 1) * step]

\* np.tile(a.reshape(-1, 1), (2)).flatten(): every element twice
TileTwice(a) == [t \in 1..(2 * Len(a)) |-> a[(t + 1) \div 2]]
\* np.resize(pair, shape): the pair repeated to the given length
ResizePair(pair, n) == [t \in 1..n |-> pair[((t - 1) % 2) + 1]]
\* np.arange(hatchOrder, hatchOrder + n / 2, 0.5).astype(np.int64), with
\* hatchOrder given in halves (hatchOrder2 = 2 * hatchOrder): 2 * n / 2 = n
\* values hatchOrder + t / 2, truncated
TagsMut(hatchOrder2, n) == [t \in 1..n |-> (hatchOrder2 \div 2) + (t - 1)]
Tags(hatchOrder2, n) == [t \in 1..n |-> (hatchOrder2 + (t - 1)) \div 2]
\* np.hstack of the three columns
HStack3(x, y, z) == [t \in 1..Len(x) |-> <<x[t], y[t], z[t]>>]

\* cos and sin of a multiple of 45 degrees, in thousandths
CosT(deg) ==
    LET a == deg % 360
    IN  CASE a = 0 -> 1000 [] a = 45 -> 707 [] a = 90 -> 0 [] a = 135 -> -707
          [] a = 180 -> -1000 [] a = 225 -> -707 [] a = 270 -> 0 [] a = 315 -> 707
SinT(deg) == CosT(deg - 90)

\* coords = np.matmul(R, coords.T).T + [bboxCentre, 0.0] with
\* R = ((c, -s, 0), (s, c, 0), (0, 0, 1)); x and y are brought back to the
\* unit lattice
RotateRow(deg, centre, row) ==
    << centre[1] + RoundDiv(CosT(deg) * row[1] - SinT(deg) * row[2] + 0 * row[3], 1000),
       centre[2] + RoundDiv(SinT(deg) * row[1] + CosT(deg) * row[2] + 0 * row[3], 1000),
       0 * row[1] + 0 * row[2] + 1 * row[3] + 0 >>
RotateTranslate(deg, centre, coords) ==
    [t \in 1..Len(coords) |-> RotateRow(deg, centre, coords[t])]

\* ---------------------------------------------------------------- geometry
\* a rectangular ring as the list of its corners
RectPath(x0, y0, x1, y1) == << <<x0, y0>>, <<x1, y0>>, <<x1, y1>>, <<x0, y1>> >>

\* BaseHatcher.polygonBoundingBox of one path: (xmin, ymin, xmax, ymax)
polygonBoundingBox(path) ==
    << SetMin({path[i][1] : i \in 1..Len(path)}),
       SetMin({path[i][2] : i \in 1..Len(path)}),
       SetMax({path[i][1] : i \in 1..Len(path)}),
       SetMax({path[i][2] : i \in 1..Len(path)}) >>

\* BaseHatcher.boundaryBoundingBox of a list of paths
boundaryBoundingBox(paths) ==
    LET bboxList == [i \in 1..Len(paths) |-> polygonBoundingBox(paths[i])]
        I == 1..Len(paths)
    IN  << SetMin({bboxList[i][1] : i \in I}), SetMin({bboxList[i][2] : i \in I}),
           SetMax({bboxList[i][3] : i \in I}), SetMax({bboxList[i][4] : i \in I}) >>

\* np.mean(bbox.reshape(2, 2), axis=0)
BBoxCentre(bbox) == << (bbox[1] + bbox[3]) \div 2, (bbox[2] + bbox[4]) \div 2 >>
\* diagonal = bbox[2:] - bboxCentre ; np.sqrt(diagonal.dot(diagonal))
BBoxRadius(bbox) ==
    LET c == BBoxCentre(bbox)
        dx == bbox[3] - c[1]
        dy == bbox[4] - c[2]
    IN  SqrtUp(dx * dx + dy * dy)

\* pyclipr.ClipperOffset on one rectangular ring: every side moves by the
\* offset (negative = inward); a ring left without area is omitted.  The
\* round joins of an outward offset are kept square
OffsetRing(path, offset) ==
    LET b == polygonBoundingBox(path)
        x0 == b[1] - offset
        y0 == b[2] - offset
        x1 == b[3] + offset
        y1 == b[4] + offset
    IN  IF x0 < x1 /\ y0 < y1 THEN << RectPath(x0, y0, x1, y1) >> ELSE << >>

RECURSIVE Concat(_)
Concat(seqs) == IF seqs = << >> THEN << >> ELSE Head(seqs) \o Concat(Tail(seqs))

\* BaseHatcher.offsetBoundary(paths, offset)
offsetBoundary(paths, offset) ==
    Concat([i \in 1..Len(paths) |-> OffsetRing(paths[i], offset)])

\* --------------------------------------------------------------- generator
\* BaseHatcher.generateHatching before the rotation: the rows (x, y, z) of
\* the square that wraps the bounding radius
UniformLocalMut(bboxRadius, hatchSpacing) ==
    LET x == TileTwice(Arange(-bboxRadius, bboxRadius, hatchSpacing))
        y == ResizePair(<< -bboxRadius, bboxRadius >>, Len(x))
        z == Tags(0, Len(x))
    IN  HStack3(y, x, z)
UniformLocal(bboxRadius, hatchSpacing) ==
    LET x == TileTwice(Arange(-bboxRadius, bboxRadius, hatchSpacing))
        y == ResizePair(<< -bboxRadius, bboxRadius >>, Len(x))
        z == Tags(0, Len(x))
    IN  HStack3(x, y, z)

\* BaseHatcher.generateHatching(paths, hatchSpacing, hatchAngle)
generateHatching(paths, hatchSpacing, hatchAngle) ==
    LET bbox == boundaryBoundingBox(paths)
    IN  RotateTranslate(hatchAngle, BBoxCentre(bbox),
                        UniformLocal(BBoxRadius(bbox), hatchSpacing))

\* StripeHatcher.generateHatching, the loop body for stripe i: p holds the
\* radius r, the spacing h, the stripe width W, the overlap o and the stripe
\* offset f2 in halves; acc holds hatchOrder (in halves) and the rows so far
StripeStepMut(p, i, acc) ==
    LET startX == -p.r + i * p.W - p.o
        endX == startX + p.W + 2 * p.o
        shift == ((i % 2) * p.f2 * p.h) \div 2
        y == TileTwice(Arange(-p.r + shift, p.r + shift, p.h))
        x == ResizePair(<< startX, endX >>, Len(y))
        z == Tags(acc.hatchOrder2, Len(y))
    IN  [hatchOrder2 |-> acc.hatchOrder2 + Len(x),
         coords |-> acc.coords \o HStack3(x, y, z)]
StripeStep(p, i, acc) ==
    LET startX == -p.r + i * p.W - p.o
        endX == startX + p.W + p.o
        shift == ((i % 2) * p.f2 * p.h) \div 2
        y == TileTwice(Arange(-p.r + shift, p.r + shift, p.h))
        x == ResizePair(<< startX, endX >>, Len(y))
        z == Tags(acc.hatchOrder2, Len(y))
    IN  [hatchOrder2 |-> acc.hatchOrder2 + Len(x),
         coords |-> acc.coords \o HStack3(x, y, z)]

RECURSIVE StripeLoop(_, _, _, _)
StripeLoop(p, i, numStripes, acc) ==
    IF i >= numStripes THEN acc
    ELSE StripeLoop(p, i + 1, numStripes, StripeStep(p, i, acc))

\* numStripes = int(2 * bboxRadius / self._stripeWidth) + 1
StripeLocal(p) ==
    StripeLoop(p, 0, FloorDiv(2 * p.r, p.W) + 1,
               [hatchOrder2 |-> 0, coords |-> << >>]).coords

\* StripeHatcher.generateHatching: theta_h = np.radians(hatchAngle * -1.0)
generateStripeHatching(paths, hatchSpacing, hatchAngle, stripeWidth, stripeOverlap, stripeOffset2) ==
    LET bbox == boundaryBoundingBox(paths)
    IN  RotateTranslate(-hatchAngle, BBoxCentre(bbox),
            StripeLocal([r |-> BBoxRadius(bbox), h |-> hatchSpacing, W |-> stripeWidth,
                         o |-> stripeOverlap, f2 |-> stripeOffset2]))

IslandStepMut(p, i, j, acc) ==
    LET startX == -p.r + i * p.W - p.o
        endX == startX + p.W + p.o
        startY == -p.r + j * p.W - p.o
        endY == startY + p.W + p.o
        shift == (p.f2 * p.h) \div 2
        odd == (i + j) % 2 # 0
        y == IF odd THEN TileTwice(Arange(startY + shift, endY + shift, p.h))
             ELSE ResizePair(<< startY, endY >>,
                             2 * ArangeLen(startX + shift, endX + shift, p.h))
        x == IF odd THEN ResizePair(<< startX, endX >>, Len(y))
             ELSE TileTwice(Arange(startX + shift, endX + shift, p.h))
        z == Tags(acc.hatchOrder2, Len(y))
    IN  [hatchOrder2 |-> acc.hatchOrder2 + Len(x),
         coords |-> acc.coords \o HStack3(x, y, z)]

\* BasicIslandHatcher.generateHatching, the loop body for island (i, j)
IslandStep(p, i, j, acc) ==
    LET startX == -p.r + i * p.W - p.o
        endX == startX + p.W + p.o
        startY == -p.r + j * p.W - p.o
        endY == startY + p.W + p.o
        shift == (((i + j) % 2) * p.f2 * p.h) \div 2
        odd == (i + j) % 2 # 0
        y == IF odd THEN TileTwice(Arange(startY + shift, endY + shift, p.h))
             ELSE ResizePair(<< startY, endY >>,
                             2 * ArangeLen(startX + shift, endX + shift, p.h))
        x == IF odd THEN ResizePair(<< startX, endX >>, Len(y))
             ELSE TileTwice(Arange(startX + shift, endX + shift, p.h))
        z == Tags(acc.hatchOrder2, Len(y))
    IN  [hatchOrder2 |-> acc.hatchOrder2 + Len(x),
         coords |-> acc.coords \o HStack3(x, y, z)]

RECURSIVE IslandLoop(_, _, _, _)
IslandLoop(p, c, numIslands, acc) ==
    IF c >= numIslands * numIslands THEN acc
    ELSE IslandLoop(p, c + 1, numIslands,
                    IslandStep(p, c \div numIslands, c % numIslands, acc))

\* numIslands = int(2 * bboxRadius / self._islandWidth) + 1
IslandLocal(p) ==
    IslandLoop(p, 0, FloorDiv(2 * p.r, p.W) + 1,
               [hatchOrder2 |-> 0, coords |-> << >>]).coords

\* BasicIslandHatcher.generateHatching
generateIslandHatching(paths, hatchSpacing, hatchAngle, islandWidth, islandOverlap, islandOffset2) ==
    LET bbox == boundaryBoundingBox(paths)
    IN  RotateTranslate(hatchAngle, BBoxCentre(bbox),
            IslandLocal([r |-> BBoxRadius(bbox), h |-> hatchSpacing, W |-> islandWidth,
                         o |-> islandOverlap, f2 |-> islandOffset2]))

\* ------------------------------------------------------------- clip engine
\* Python values: None and a numpy array
PyNone == [py |-> "None"]
NdArray(a) == [py |-> "ndarray", a |-> a]

\* a rational n / d with d > 0, as <<n, d>>
RatLess(a, b) == a[1] * b[2] < b[1] * a[2]
RatMax(S) == CHOOSE m \in S : \A e \in S : ~RatLess(m, e)
RatMin(S) == CHOOSE m \in S : \A e \in S : ~RatLess(e, m)

\* The part of the open segment p0-p1 strictly inside the rectangle b, as
\* the parameter interval <<t0, t1>> (Liang-Barsky), or << >> when none
InsideInterval(p0, p1, b) ==
    LET dx == p1[1] - p0[1]
        dy == p1[2] - p0[2]
        pq == { << -dx, p0[1] - b[1] >>, << dx, b[3] - p0[1] >>,
                << -dy, p0[2] - b[2] >>, << dy, b[4] - p0[2] >> }
        enter == { << -e[2], -e[1] >> : e \in { f \in pq : f[1] < 0 } }
        leave == { << e[2], e[1] >> : e \in { f \in pq : f[1] > 0 } }
        t0 == RatMax(enter \cup { <<0, 1>> })
        t1 == RatMin(leave \cup { <<1, 1>> })
    IN  IF \E e \in pq : e[1] = 0 /\ e[2] <= 0 THEN << >>
        ELSE IF RatLess(t0, t1) THEN << t0, t1 >> ELSE << >>

PointAt(p0, p1, t) ==
    << p0[1] + RoundDiv(t[1] * (p1[1] - p0[1]), t[2]),
       p0[2] + RoundDiv(t[1] * (p1[2] - p0[2]), t[2]) >>

\* One subject line (a pair of (x, y, z) rows) against one rectangular ring:
\* at most one open path, whose vertices keep the z of the line's ends
ClipLineRing(line, path) ==
    LET iv == InsideInterval(line[1], line[2], polygonBoundingBox(path))
    IN  IF iv = << >> THEN << >>
        ELSE << [xy |-> << PointAt(line[1], line[2], iv[1]),
                           PointAt(line[1], line[2], iv[2]) >>,
                 z |-> << line[1][3], line[2][3] >>] >>

\* lines.reshape(-1, 2, 3)
ReshapeLines(coords) ==
    [k \in 1..(Len(coords) \div 2) |-> << coords[2 * k - 1], coords[2 * k] >>]

\* pyclipr.Clipper.execute(Intersection, NonZero, returnOpenPaths, returnZ):
\* the open paths of all lines against all (disjoint) rings, line by line
OpenPaths(paths, lines) ==
    Concat([k \in 1..Len(lines) |->
              Concat([i \in 1..Len(paths) |-> ClipLineRing(lines[k], paths[i])])])

\* The orders in which the engine may hand back n paths: the rotations of
\* the subject order and of its reverse (every order when n <= 3)
ClipOrders(n) ==
    IF n = 0 THEN { << >> } ELSE
    { [k \in 1..n |-> ((k - 1 + s) % n) + 1] : s \in 0..(n - 1) } \cup
    { [k \in 1..n |-> ((n - k + s) % n) + 1] : s \in 0..(n - 1) }

\* np.dstack([lineXY, lineZ]): np.array([]) has shape (0,), which
\* atleast_3d turns into (1, 0, 1), so two empty lists stack to (1, 0, 2)
Dstack(lineXY, lineZ) ==
    IF Len(lineXY) = 0 THEN << << >> >>
    ELSE [i \in 1..Len(lineXY) |->
            [j \in 1..2 |-> << lineXY[i][j][1], lineXY[i][j][2], lineZ[i][j] >>]]

\* BaseHatcher.clipLines(paths, lines); order is the engine's output order
clipLines(paths, lines, order) ==
    IF Len(lines) = 0 THEN PyNone
    ELSE LET out == OpenPaths(paths, ReshapeLines(lines))
             lineXY == [k \in 1..Len(out) |-> out[order[k]].xy]
             lineZ == [k \in 1..Len(out) |-> out[order[k]].z]
         IN  NdArray(Dstack(lineXY, lineZ))

\* BaseHatcher.clipperToHatchArray(coords): the list of (2 x 3) paths is
\* stacked along a third axis and that axis moved to the front
clipperToHatchArray(coords) ==
    LET stacked == [j \in 1..Len(coords[1]) |->
                      [c \in 1..Len(coords[1][j]) |->
                         [i \in 1..Len(coords) |-> coords[i][j][c]]]]
    IN  [i \in 1..Len(coords) |->
           [j \in 1..Len(stacked) |->
              [c \in 1..Len(stacked[j]) |-> stacked[j][c][i]]]]

\* BaseHatcher.clipContourLines(paths, contourPaths): each open path the
\* engine hands back becomes one array of (x, y, z) rows
clipContourLines(paths, contourPaths, order) ==
    LET out == OpenPaths(paths, contourPaths)
    IN  [k \in 1..Len(out) |->
           [r \in 1..Len(out[order[k]].xy) |->
              << out[order[k]].xy[r][1], out[order[k]].xy[r][2], out[order[k]].z[r] >>]]

\* np.argsort(keys): the index orders that put the keys in ascending order;
\* the default kind promises no order among equal keys
RECURSIVE ArgSortFromMut(_, _)
ArgSortFromMut(keys, left) ==
    IF left = {} THEN { << >> }
    ELSE LET m == SetMax({keys[i] : i \in left})
         IN  UNION { { <<i>> \o rest : rest \in ArgSortFromMut(keys, left \ {i}) } :
                     i \in { j \in left : keys[j] = m } }
RECURSIVE ArgSortFrom(_, _)
ArgSortFrom(keys, left) ==
    IF left = {} THEN { << >> }
    ELSE LET m == SetMin({keys[i] : i \in left})
         IN  UNION { { <<i>> \o rest : rest \in ArgSortFrom(keys, left \ {i}) } :
                     i \in { j \in left : keys[j] = m } }
ArgSortMut(keys) == { [i \in 1..Len(keys) |-> i] }
ArgSort(keys) == ArgSortFrom(keys, 1..Len(keys))

\* ------------------------------------------------------------------ state
VARIABLES
    \* the Hatcher's attributes (Hatcher.__init__)
    scanContourFirst, numInnerContours, numOuterContours, spotCompensation,
    contourOffset, volumeOffsetHatch, layerAngleIncrement, hatchDistance,
    hatchAngle, hatchSortMethod, hatchingEnabled,
    \* the number of slices hatched so far, i.e. the index of the next slice
    layerIndex,
    \* the last call: its name, what it returned or raised, and for hatch its
    \* argument and locals
    lastCall, ret, boundaryFeature, offsetCalls, contourLayerGeometries,
    curBoundary, generatorCalls, clippedPaths, hatchLayerGeometries,
    \* the last run of a generator on its own: its inputs and its rows
    gen,
    \* the last call of getExposurePoints: its arguments and what it returned
    exposure,
    \* the CLIPPER_SCALEFACTOR attributes of the classes, the tolerance the
    \* last error() returned and the last call that set up a clip engine
    clipper

config == << scanContourFirst, numInnerContours, numOuterContours, spotCompensation,
             contourOffset, volumeOffsetHatch, layerAngleIncrement, hatchDistance,
             hatchAngle, hatchSortMethod, hatchingEnabled >>
locals == << boundaryFeature, offsetCalls, contourLayerGeometries, curBoundary,
             generatorCalls, clippedPaths, hatchLayerGeometries >>
vars == << config, layerIndex, lastCall, ret, locals, gen, exposure, clipper >>

\* what a call returns or raises
Returned(v) == [kind |-> "return", value |-> v, error |-> ""]
Raised(e) == [kind |-> "raise", value |-> PyNone, error |-> e]
LayerOf(geometry) == [py |-> "Layer", geometry |-> geometry]
NoCall == [py |-> "NoCall"]

\* geometry records (pyslm.geometry)
ContourGeometry(coords, subType) ==
    [type |-> "ContourGeometry", coords |-> coords, subType |-> subType]
HatchGeometry(coords) ==
    [type |-> "HatchGeometry", coords |-> coords, subType |-> ""]

\* Hatcher.__init__
InitHatcher ==
    /\ scanContourFirst = FALSE
    /\ numInnerContours = DefaultContours
    /\ numOuterContours = DefaultContours
    /\ spotCompensation = DefaultLength
    /\ contourOffset = DefaultLength
    /\ volumeOffsetHatch = DefaultLength
    /\ layerAngleIncrement = 0
    /\ hatchDistance = DefaultLength
    /\ hatchAngle = DefaultHatchAngle
    /\ hatchSortMethod = "None"
    /\ hatchingEnabled = TRUE
    /\ layerIndex = 0
    /\ lastCall = "__init__"
    /\ ret = Returned(PyNone)
    /\ boundaryFeature = << >>
    /\ offsetCalls = << >>
    /\ contourLayerGeometries = << >>
    /\ curBoundary = << >>
    /\ generatorCalls = << >>
    /\ clippedPaths = NoCall
    /\ hatchLayerGeometries = << >>

NoGen == [kind |-> "none", done |-> FALSE]
NoExposure == [done |-> FALSE]

\* the classes of the module that carry the clipping methods
HatcherClasses == { "BaseHatcher", "Hatcher", "StripeHatcher", "BasicIslandHatcher" }
\* cls.CLIPPER_SCALEFACTOR: the attribute of the first class, from cls up
\* its bases, that has one of its own; attrs maps such classes to values,
\* Hatcher derives from BaseHatcher and the other two from Hatcher
RECURSIVE ClassAttribute(_, _)
ClassAttribute(attrs, cls) ==
    IF cls \in DOMAIN attrs THEN attrs[cls]
    ELSE ClassAttribute(attrs, IF cls = "Hatcher" THEN "BaseHatcher" ELSE "Hatcher")
\* CLIPPER_SCALEFACTOR : int = int(1e5) in the body of BaseHatcher
NoClipper ==
    [attrs |-> [c \in { "BaseHatcher" } |-> DefaultScaleFactor],
     tolerance |-> << >>, engine |-> << >>]
Init == InitHatcher /\ gen = NoGen /\ exposure = NoExposure /\ clipper = NoClipper

\* a call other than hatch leaves no locals behind
NoLocals ==
    /\ boundaryFeature' = << >>
    /\ offsetCalls' = << >>
    /\ contourLayerGeometries' = << >>
    /\ curBoundary' = << >>
    /\ generatorCalls' = << >>
    /\ clippedPaths' = NoCall
    /\ hatchLayerGeometries' = << >>

Setter(name) ==
    /\ lastCall' = name
    /\ ret' = Returned(PyNone)
    /\ NoLocals
    /\ UNCHANGED << layerIndex, gen, exposure, clipper >>

\* ---------------------------------------------------------------- setters
SetScanContourFirst(value) ==
    /\ scanContourFirst' = value
    /\ Setter("scanContourFirst")
    /\ UNCHANGED << numInnerContours, numOuterContours, spotCompensation, contourOffset,
                    volumeOffsetHatch, layerAngleIncrement, hatchDistance, hatchAngle,
                    hatchSortMethod, hatchingEnabled >>

SetNumInnerContours(value) ==
    /\ numInnerContours' = value
    /\ Setter("numInnerContours")
    /\ UNCHANGED << scanContourFirst, numOuterContours, spotCompensation, contourOffset,
                    volumeOffsetHatch, layerAngleIncrement, hatchDistance, hatchAngle,
                    hatchSortMethod, hatchingEnabled >>

SetNumOuterContours(value) ==
    /\ numOuterContours' = value
    /\ Setter("numOuterContours")
    /\ UNCHANGED << scanContourFirst, numInnerContours, spotCompensation, contourOffset,
                    volumeOffsetHatch, layerAngleIncrement, hatchDistance, hatchAngle,
                    hatchSortMethod, hatchingEnabled >>

SetSpotCompensation(value) ==
    /\ spotCompensation' = value
    /\ Setter("spotCompensation")
    /\ UNCHANGED << scanContourFirst, numInnerContours, numOuterContours, contourOffset,
                    volumeOffsetHatch, layerAngleIncrement, hatchDistance, hatchAngle,
                    hatchSortMethod, hatchingEnabled >>

SetContourOffset(offset) ==
    /\ contourOffset' = offset
    /\ Setter("contourOffset")
    /\ UNCHANGED << scanContourFirst, numInnerContours, numOuterContours, spotCompensation,
                    volumeOffsetHatch, layerAngleIncrement, hatchDistance, hatchAngle,
                    hatchSortMethod, hatchingEnabled >>

SetVolumeOffsetHatch(value) ==
    /\ volumeOffsetHatch' = value
    /\ Setter("volumeOffsetHatch")
    /\ UNCHANGED << scanContourFirst, numInnerContours, numOuterContours, spotCompensation,
                    contourOffset, layerAngleIncrement, hatchDistance, hatchAngle,
                    hatchSortMethod, hatchingEnabled >>

SetLayerAngleIncrement(value) ==
    /\ layerAngleIncrement' = value
    /\ Setter("layerAngleIncrement")
    /\ UNCHANGED << scanContourFirst, numInnerContours, numOuterContours, spotCompensation,
                    contourOffset, volumeOffsetHatch, hatchDistance, hatchAngle,
                    hatchSortMethod, hatchingEnabled >>

\* Hatcher.hatchDistance.setter: the value is stored as given
SetHatchDistance(value) ==
    /\ hatchDistance' = value
    /\ Setter("hatchDistance")
    /\ UNCHANGED << scanContourFirst, numInnerContours, numOuterContours, spotCompensation,
                    contourOffset, volumeOffsetHatch, layerAngleIncrement, hatchAngle,
                    hatchSortMethod, hatchingEnabled >>

SetHatchAngle(value) ==
    /\ hatchAngle' = value
    /\ Setter("hatchAngle")
    /\ UNCHANGED << scanContourFirst, numInnerContours, numOuterContours, spotCompensation,
                    contourOffset, volumeOffsetHatch, layerAngleIncrement, hatchDistance,
                    hatchSortMethod, hatchingEnabled >>

\* the sort objects a caller may hand over: None, instances of BaseSort
\* subclasses, and an object that is no BaseSort
IsBaseSortMut(sortObj) == TRUE
IsBaseSort(sortObj) == sortObj \in { "AlternateSort", "LinearSort" }

\* Hatcher.hatchSortMethod.setter
SetHatchSortMethod(sortObj) ==
    /\ lastCall' = "hatchSortMethod"
    /\ IF sortObj # "None" /\ ~IsBaseSort(sortObj)
       THEN /\ ret' = Raised("TypeError")
            /\ UNCHANGED hatchSortMethod
       ELSE /\ ret' = Returned(PyNone)
            /\ hatchSortMethod' = sortObj
    /\ NoLocals
    /\ UNCHANGED << layerIndex, gen, exposure, clipper >>
    /\ UNCHANGED << scanContourFirst, numInnerContours, numOuterContours, spotCompensation,
                    contourOffset, volumeOffsetHatch, layerAngleIncrement, hatchDistance,
                    hatchAngle, hatchingEnabled >>

SetHatchingEnabled(value) ==
    /\ hatchingEnabled' = value
    /\ Setter("hatchingEnabled")
    /\ UNCHANGED << scanContourFirst, numInnerContours, numOuterContours, spotCompensation,
                    contourOffset, volumeOffsetHatch, layerAngleIncrement, hatchDistance,
                    hatchAngle, hatchSortMethod >>

\* ------------------------------------------------------------ Hatcher.hatch
\* if len(boundaryFeature) == 0: return None
EmptyBoundaryMut(boundary) == FALSE
EmptyBoundary(boundary) == Len(boundary) = 0

\* offsetDelta = 1e-6 ; offsetDelta -= self._spotCompensation
InitialOffsetMut == -spotCompensation - EPS
InitialOffset == EPS - spotCompensation

\* the running offset at outer iteration i
OuterOffset(i, offsetDelta) ==
    IF i > 0 THEN offsetDelta - contourOffset ELSE offsetDelta

\* the running offset at inner iteration i
InnerOffsetMut(i, offsetDelta) ==
    IF i > 0 THEN offsetDelta - contourOffset ELSE offsetDelta
InnerOffset(i, offsetDelta) ==
    IF (numOuterContours = 0 /\ i > 0) \/ numOuterContours > 0
    THEN offsetDelta - contourOffset
    ELSE offsetDelta

\* for path in offsetBoundary: coords = np.vstack([path, path[0]])
ContourRecords(rings, subType) ==
    [k \in 1..Len(rings) |-> ContourGeometry(rings[k] \o << rings[k][1] >>, subType)]

\* one iteration of a contour loop on the state st of the locals
ContourStep(boundary, loop, i, offset, st) ==
    LET rings == offsetBoundary(boundary, offset)
    IN  [offsetDelta |-> offset,
         contours |-> st.contours \o ContourRecords(rings, loop),
         calls |-> Append(st.calls,
                          [loop |-> loop, i |-> i, offset |-> offset, result |-> rings])]

\* for i in range(self._numOuterContours)
RECURSIVE OuterContours(_, _, _)
OuterContours(boundary, i, st) ==
    IF i >= numOuterContours THEN st
    ELSE OuterContours(boundary, i + 1,
             ContourStep(boundary, "outer", i, OuterOffset(i, st.offsetDelta), st))

\* for i in range(self._numInnerContours)
RECURSIVE InnerContours(_, _, _)
InnerContours(boundary, i, st) ==
    IF i >= numInnerContours THEN st
    ELSE InnerContours(boundary, i + 1,
             ContourStep(boundary, "inner", i, InnerOffset(i, st.offsetDelta), st))

\* the offset of the boundary that is hatched
FinalOffsetMut(offsetDelta, contours) ==
    IF Len(contours) > 0 THEN offsetDelta - volumeOffsetHatch ELSE offsetDelta
FinalOffset(offsetDelta, contours) ==
    IF numInnerContours + numOuterContours > 0
    THEN offsetDelta - volumeOffsetHatch
    ELSE offsetDelta

\* np.mod(angle, 180); if layerHatchAngle > 90: layerHatchAngle - 180
CanonicalAngleMut(a) == a % 180
CanonicalAngle(a) == IF a % 180 > 90 THEN (a % 180) - 180 ELSE a % 180

\* layerHatchAngle: np.mod(hatchAngle + layerAngleIncrement, 180), brought
\* below 90
LayerHatchAngleMut ==
    LET a == (hatchAngle + layerAngleIncrement * layerIndex) % 180
    IN  IF a > 90 THEN a - 180 ELSE a
LayerHatchAngle == CanonicalAngle(hatchAngle + layerAngleIncrement)

\* pyslm.hatching.sorting.AlternateSort.sort: every second vector is flipped
AlternateSort(hatchVectors) ==
    [t \in 1..Len(hatchVectors) |->
        IF ((t - 1) \div 2) % 2 = 1
        THEN (IF t % 2 = 1 THEN hatchVectors[t + 1] ELSE hatchVectors[t - 1])
        ELSE hatchVectors[t]]

\* if self.hatchSortMethod: hatchVectors = self.hatchSortMethod.sort(hatchVectors)
SortedVectors(hatchVectors) ==
    IF hatchSortMethod = "AlternateSort" THEN AlternateSort(hatchVectors)
    ELSE hatchVectors

\* hatchVectors[:, :, :2].reshape(-1, 2)
FlattenXY(clippedLines) ==
    [t \in 1..(2 * Len(clippedLines)) |->
        << clippedLines[(t + 1) \div 2][((t - 1) % 2) + 1][1],
           clippedLines[(t + 1) \div 2][((t - 1) % 2) + 1][2] >>]

InfillOutcome(error, calls, clipped, geoms) ==
    [error |-> error, generatorCalls |-> calls, clippedPaths |-> clipped,
     hatchLayerGeometries |-> geoms]

\* lines 819-844: what follows clipLines, for each order argsort may give
AfterClip(calls, clipped) ==
    IF clipped = PyNone THEN { InfillOutcome("TypeError", calls, clipped, << >>) }
    ELSE IF Len(clipped.a) > 0
    THEN LET clippedLines == clipperToHatchArray(clipped.a)
             n == Len(clippedLines)
         IN  IF \E i \in 1..n : Len(clippedLines[i]) < 1 \/ Len(clippedLines[i][1]) < 3
             THEN { InfillOutcome("IndexError", calls, clipped, << >>) }
             ELSE { InfillOutcome("", calls, clipped,
                        << HatchGeometry(SortedVectors(FlattenXY(
                               [k \in 1..n |-> clippedLines[id[k]]]))) >>) :
                    id \in ArgSort([i \in 1..n |-> clippedLines[i][1][3]]) }
    ELSE { InfillOutcome("", calls, clipped, << >>) }

\* lines 798-844: the hatch infill of the boundary paths; np.arange
\* refuses a zero step (OverflowError, ValueError on older numpy)
Infill(paths) ==
    IF ~(hatchingEnabled /\ Len(paths) > 0)
    THEN { InfillOutcome("", << >>, NoCall, << >>) }
    ELSE LET calls == << [hatchSpacing |-> hatchDistance, hatchAngle |-> LayerHatchAngle] >>
         IN  IF hatchDistance = 0
             THEN { InfillOutcome("OverflowError", calls, NoCall, << >>) }
             ELSE LET hatches == generateHatching(paths, hatchDistance, LayerHatchAngle)
                      n == Len(OpenPaths(paths, ReshapeLines(hatches)))
                  IN  UNION { AfterClip(calls, clipLines(paths, hatches, order)) :
                              order \in ClipOrders(n) }

\* lines 881-884
LayerGeometryMut(contours, hatches) == contours \o hatches
LayerGeometry(contours, hatches) ==
    IF scanContourFirst THEN contours \o hatches ELSE hatches \o contours

Hatch(boundary) ==
    /\ layerIndex < MaxLayers
    /\ layerIndex' = layerIndex + 1
    /\ lastCall' = "hatch"
    /\ boundaryFeature' = boundary
    /\ IF EmptyBoundary(boundary)
       THEN /\ ret' = Returned(PyNone)
            /\ offsetCalls' = << >>
            /\ contourLayerGeometries' = << >>
            /\ curBoundary' = << >>
            /\ generatorCalls' = << >>
            /\ clippedPaths' = NoCall
            /\ hatchLayerGeometries' = << >>
       ELSE LET st0 == [offsetDelta |-> InitialOffset, contours |-> << >>, calls |-> << >>]
                st == InnerContours(boundary, 0, OuterContours(boundary, 0, st0))
                offsetDelta == FinalOffset(st.offsetDelta, st.contours)
                paths == offsetBoundary(boundary, offsetDelta)
            IN  \E o \in Infill(paths) :
                  /\ offsetCalls' = Append(st.calls, [loop |-> "final", i |-> 0,
                                           offset |-> offsetDelta, result |-> paths])
                  /\ contourLayerGeometries' = st.contours
                  /\ curBoundary' = paths
                  /\ generatorCalls' = o.generatorCalls
                  /\ clippedPaths' = o.clippedPaths
                  /\ hatchLayerGeometries' = o.hatchLayerGeometries
                  /\ ret' = IF o.error = ""
                            THEN Returned(LayerOf(LayerGeometry(st.contours,
                                                   o.hatchLayerGeometries)))
                            ELSE Raised(o.error)
    /\ UNCHANGED << config, gen, exposure, clipper >>

\* ------------------------------------------------------------ input domains
\* slices: nothing, one square of side 2 * k, two squares one above the other
Square(k) == << RectPath(0, 0, 2 * k, 2 * k) >>
TwoSquares == << RectPath(0, 0, 4, 4), RectPath(0, 8, 4, 12) >>
Boundaries == { << >>, TwoSquares } \cup { Square(k) : k \in 1..MaxHalfSide }
ContourCounts == 0..MaxContours
SpotValues == { 0, 2 }
ContourOffsetValues == { 1 }
VolumeOffsetValues == { -2, 1 }
HatchDistanceValues == { -1, 0, 2, 3 }
AngleValues == { -135, 0, 90 }
IncrementValues == { 0, 45, 90 }
SortObjects == { "None", "AlternateSort", "NotASort" }

\* the recipe with its contour parameters varying
NextContour ==
    \/ \E v \in BOOLEAN : SetScanContourFirst(v)
    \/ \E v \in ContourCounts : SetNumInnerContours(v)
    \/ \E v \in ContourCounts : SetNumOuterContours(v)
    \/ \E v \in { 2 } : SetSpotCompensation(v)
    \/ \E v \in ContourOffsetValues : SetContourOffset(v)
    \/ \E v \in VolumeOffsetValues : SetVolumeOffsetHatch(v)
    \/ \E v \in { 2 } : SetHatchDistance(v)
    \/ \E b \in Boundaries : Hatch(b)
SpecContour == Init /\ [][NextContour]_vars

\* the recipe with its infill parameters varying
NextInfill ==
    \/ \E v \in { 0 } : SetNumInnerContours(v)
    \/ \E v \in { 0 } : SetNumOuterContours(v)
    \/ \E v \in SpotValues : SetSpotCompensation(v)
    \/ \E v \in HatchDistanceValues : SetHatchDistance(v)
    \/ \E v \in AngleValues : SetHatchAngle(v)
    \/ \E v \in IncrementValues : SetLayerAngleIncrement(v)
    \/ \E v \in SortObjects : SetHatchSortMethod(v)
    \/ \E v \in BOOLEAN : SetHatchingEnabled(v)
    \/ \E b \in Boundaries : Hatch(b)
SpecInfill == Init /\ [][NextInfill]_vars

\* ------------------------------------------------- the generators on their own
\* a generator call that has not run yet: its class and its arguments
GenInput(kind, paths, h, a, W, o, f2) ==
    [kind |-> kind, paths |-> paths, hatchSpacing |-> h, hatchAngle |-> a,
     width |-> W, overlap |-> o, offset2 |-> f2, done |-> FALSE, coords |-> << >>]

\* a boundary whose points all coincide has a bounding radius of 0
PointPath == << RectPath(2, 2, 2, 2) >>
GenPaths == (Boundaries \ { << >> }) \cup { PointPath }
GenSpacings == { 2, 4 }
GenAngles == { -45, 0, 45, 90 }
GenWidths == { 3, 5 }
GenOverlaps == { 0, 1 }
GenOffsets2 == { 0, 1 }
GenInputs ==
    { GenInput("uniform", b, h, a, 0, 0, 0) :
        b \in GenPaths, h \in GenSpacings, a \in GenAngles } \cup
    { GenInput(k, b, h, a, W, o, f2) :
        k \in { "stripe", "island" }, b \in GenPaths, h \in GenSpacings, a \in GenAngles,
        W \in GenWidths, o \in GenOverlaps, f2 \in GenOffsets2 }

GenerateUniform ==
    /\ gen.kind = "uniform" /\ ~gen.done
    /\ gen' = [gen EXCEPT !.done = TRUE,
                          !.coords = generateHatching(gen.paths, gen.hatchSpacing,
                                                      gen.hatchAngle)]
    /\ UNCHANGED << config, layerIndex, lastCall, ret, locals, exposure, clipper >>

GenerateStripe ==
    /\ gen.kind = "stripe" /\ ~gen.done
    /\ gen' = [gen EXCEPT !.done = TRUE,
                          !.coords = generateStripeHatching(gen.paths, gen.hatchSpacing,
                                         gen.hatchAngle, gen.width, gen.overlap,
                                         gen.offset2)]
    /\ UNCHANGED << config, layerIndex, lastCall, ret, locals, exposure, clipper >>

GenerateIsland ==
    /\ gen.kind = "island" /\ ~gen.done
    /\ gen' = [gen EXCEPT !.done = TRUE,
                          !.coords = generateIslandHatching(gen.paths, gen.hatchSpacing,
                                         gen.hatchAngle, gen.width, gen.overlap,
                                         gen.offset2)]
    /\ UNCHANGED << config, layerIndex, lastCall, ret, locals, exposure, clipper >>

NextGen ==
    \/ GenerateUniform
    \/ GenerateStripe
    \/ GenerateIsland
InitGen == InitHatcher /\ gen \in GenInputs /\ exposure = NoExposure /\ clipper = NoClipper
SpecGen == InitGen /\ [][NextGen]_vars

\* ---------------------------------------------------- getExposurePoints
\* Vectors here are parallel to an axis, so that np.hypot and the division
\* by the length stay on the integers.
AbsVal(a) == IF a < 0 THEN -a ELSE a
\* np.hypot(dx, dy)
Hypot(dx, dy) ==
    IF dx = 0 THEN AbsVal(dy) ELSE IF dy = 0 THEN AbsVal(dx) ELSE SqrtUp(dx * dx + dy * dy)

\* np.diff over a pair of points
Diff(a, b) == << b[1] - a[1], b[2] - a[2] >>
\* delta / lineDist; a vector of no length gives nan, which no point uses
Normalise(delta, lineDist) ==
    IF lineDist = 0 THEN << 0, 0 >>
    ELSE << (AbsVal(delta[1]) \div lineDist) * (IF delta[1] < 0 THEN -1 ELSE 1),
            (AbsVal(delta[2]) \div lineDist) * (IF delta[2] < 0 THEN -1 ELSE 1) >>
\* dir = -1.0 * delta / lineDist
HatchDirMut(delta, lineDist) == Normalise(delta, lineDist)
HatchDir(delta, lineDist) == Normalise(<< -delta[1], -delta[2] >>, lineDist)
\* dir = 1.0 * delta / lineDist
ContourDir(delta, lineDist) == Normalise(delta, lineDist)

\* numPoints = np.ceil(lineDist / pointDistance).astype(int)
NumPoints(lineDist, pointDistance) == CeilDiv(lineDist, pointDistance)

\* the loop that fills idxArray, pntsArray and dirArray, and
\* pntsArray + pointDistance * idxArray * dirArray
ExposureRows(p0, dir, numPoints, pointDistance) ==
    LET idxArray == Concat([i \in 1..Len(numPoints) |-> [j \in 1..numPoints[i] |-> j - 1]])
        pntsArray == Concat([i \in 1..Len(numPoints) |-> [j \in 1..numPoints[i] |-> p0[i]]])
        dirArray == Concat([i \in 1..Len(numPoints) |-> [j \in 1..numPoints[i] |-> dir[i]]])
    IN  [t \in 1..Len(idxArray) |->
            << pntsArray[t][1] + pointDistance * idxArray[t] * dirArray[t][1],
               pntsArray[t][2] + pointDistance * idxArray[t] * dirArray[t][2] >>]

\* lines 50-81: the exposure points of a HatchGeometry
HatchExposurePoints(coords, pointDistance) ==
    LET pairs == [i \in 1..(Len(coords) \div 2) |-> << coords[2 * i - 1], coords[2 * i] >>]
        delta == [i \in 1..Len(pairs) |-> Diff(pairs[i][1], pairs[i][2])]
        lineDist == [i \in 1..Len(pairs) |-> Hypot(delta[i][1], delta[i][2])]
        dir == [i \in 1..Len(pairs) |-> HatchDir(delta[i], lineDist[i])]
        numPoints == [i \in 1..Len(pairs) |-> NumPoints(lineDist[i], pointDistance)]
        p0 == [i \in 1..Len(pairs) |-> pairs[i][2]]
    IN  ExposureRows(p0, dir, numPoints, pointDistance)

\* lines 93-125: the exposure points of a ContourGeometry
ContourExposurePoints(coords, pointDistance) ==
    LET delta == [i \in 1..(Len(coords) - 1) |-> Diff(coords[i], coords[i + 1])]
        lineDist == [i \in 1..Len(delta) |-> Hypot(delta[i][1], delta[i][2])]
        dir == [i \in 1..Len(delta) |-> ContourDir(delta[i], lineDist[i])]
        numPoints == [i \in 1..Len(delta) |-> NumPoints(lineDist[i], pointDistance)]
    IN  ExposureRows(coords, dir, numPoints, pointDistance)

\* np.hstack([hatchExposurePoints, col]) when includePowerDeposited
WithEnergy(rows, includePowerDeposited, energyPerExposure) ==
    IF includePowerDeposited
    THEN [t \in 1..Len(rows) |-> << rows[t][1], rows[t][2], energyPerExposure >>]
    ELSE rows

\* getExposurePoints(layer, models, includePowerDeposited) with one model
\* and one build style bs; lengths in units of 1e-6 mm
getExposurePoints(geometry, bs, includePowerDeposited) ==
    IF Len(geometry) > 0 /\ bs.pointDistance < 1 THEN Raised("ValueError")
    ELSE LET pointDistance == bs.pointDistance * MicronLength
             energyPerExposure == bs.laserPower * bs.pointExposureTime
             exposurePoints ==
                 [g \in 1..Len(geometry) |->
                     WithEnergy(IF geometry[g].type = "HatchGeometry"
                                THEN HatchExposurePoints(geometry[g].coords, pointDistance)
                                ELSE ContourExposurePoints(geometry[g].coords, pointDistance),
                                includePowerDeposited, energyPerExposure)]
         IN  IF Len(exposurePoints) = 0 THEN Raised("ValueError")
             ELSE Returned(NdArray(Concat(exposurePoints)))

\* the geometries a layer is made of: two vertical hatch vectors scanned in
\* opposite directions, one horizontal hatch vector, a closed rectangular
\* contour, and a hatch vector of no length
ExposureGeometries ==
    { HatchGeometry(<< <<0, 0>>, <<0, 2500>>, <<1000, 2500>>, <<1000, 0>> >>),
      HatchGeometry(<< <<0, 0>>, <<3000, 0>> >>),
      ContourGeometry(RectPath(0, 0, 2000, 1500) \o << <<0, 0>> >>, "outer"),
      HatchGeometry(<< <<500, 500>>, <<500, 500>> >>) }
ExposureLayers ==
    { << >> } \cup { << g >> : g \in ExposureGeometries }
              \cup { << g, h >> : g \in ExposureGeometries, h \in ExposureGeometries }
BuildStyles ==
    { [pointDistance |-> d, laserPower |-> 200, pointExposureTime |-> 80] :
        d \in 0..MaxPointDistance }
ExposureInputs ==
    { [geometry |-> l, bs |-> b, includePowerDeposited |-> f, done |-> FALSE,
       ret |-> Returned(PyNone)] :
        l \in ExposureLayers, b \in BuildStyles, f \in BOOLEAN }

GetExposurePoints ==
    /\ ~exposure.done
    /\ exposure' = [exposure EXCEPT !.done = TRUE,
                       !.ret = getExposurePoints(exposure.geometry, exposure.bs,
                                                 exposure.includePowerDeposited)]
    /\ UNCHANGED << config, layerIndex, lastCall, ret, locals, gen, clipper >>

NextExposure == GetExposurePoints
InitExposure == InitHatcher /\ gen = NoGen /\ exposure \in ExposureInputs /\ clipper = NoClipper
SpecExposure == InitExposure /\ [][NextExposure]_vars

\* ----------------------------------------------------- the clipping scale
\* BaseHatcher.error(), a classmethod: cls is the class it is called on, or
\* the class of the instance it is called on; the tolerance 1 / S is the
\* rational << 1, S >>
error(cls) == << 1, ClassAttribute(clipper.attrs, cls) >>
\* pc.scaleFactor = int(BaseHatcher.CLIPPER_SCALEFACTOR), the same line in
\* offsetBoundary, clipLines and clipContourLines
EngineScaleFactor == ClassAttribute(clipper.attrs, "BaseHatcher")

\* <class>.CLIPPER_SCALEFACTOR = value
SetScaleFactor(cls, value) ==
    /\ clipper' = [attrs |-> [c \in DOMAIN clipper.attrs \cup { cls } |->
                                IF c = cls THEN value ELSE clipper.attrs[c]],
                   tolerance |-> << >>, engine |-> << >>]
    /\ UNCHANGED << config, layerIndex, lastCall, ret, locals, gen, exposure >>

CallError(cls) ==
    /\ clipper' = [clipper EXCEPT !.tolerance = << error(cls) >>]
    /\ UNCHANGED << config, layerIndex, lastCall, ret, locals, gen, exposure >>

CallOffsetBoundary(paths, offset) ==
    /\ clipper' = [clipper EXCEPT !.engine =
                      << [name |-> "offsetBoundary", scaleFactor |-> EngineScaleFactor,
                          value |-> offsetBoundary(paths, offset)] >>]
    /\ UNCHANGED << config, layerIndex, lastCall, ret, locals, gen, exposure >>

CallClipLines(paths, lines) ==
    /\ \E order \in ClipOrders(Len(OpenPaths(paths, ReshapeLines(lines)))) :
          clipper' = [clipper EXCEPT !.engine =
                         << [name |-> "clipLines", scaleFactor |-> EngineScaleFactor,
                             value |-> clipLines(paths, lines, order)] >>]
    /\ UNCHANGED << config, layerIndex, lastCall, ret, locals, gen, exposure >>

CallClipContourLines(paths, contourPaths) ==
    /\ \E order \in ClipOrders(Len(OpenPaths(paths, contourPaths))) :
          clipper' = [clipper EXCEPT !.engine =
                         << [name |-> "clipContourLines", scaleFactor |-> EngineScaleFactor,
                             value |-> clipContourLines(paths, contourPaths, order)] >>]
    /\ UNCHANGED << config, layerIndex, lastCall, ret, locals, gen, exposure >>

NextScale ==
    \/ \E cls \in HatcherClasses, v \in { 10000, DefaultScaleFactor } :
          SetScaleFactor(cls, v)
    \/ \E cls \in HatcherClasses : CallError(cls)
    \/ \E offset \in { -1, 1 } : CallOffsetBoundary(Square(2), offset)
    \/ CallClipLines(Square(2), generateHatching(Square(2), 2, 0))
    \/ CallClipContourLines(Square(2), ReshapeLines(generateHatching(Square(2), 2, 0)))
SpecScale == Init /\ [][NextScale]_vars

Next ==
    \/ NextContour
    \/ NextInfill
    \/ NextGen
    \/ NextExposure
    \/ NextScale
Spec == Init /\ [][Next]_vars

\* ------------------------------------------------------------- properties
\* hatch returned a Layer
HatchReturnedLayer ==
    lastCall = "hatch" /\ ret.kind = "return" /\ ret.value.py = "Layer"
\* hatch ran past its empty-boundary check
HatchRan == lastCall = "hatch" /\ boundaryFeature # << >>
IsContourGeometry(rec) == rec.type = "ContourGeometry"
IsHatchGeometry(rec) == rec.type = "HatchGeometry"

\* C1: the geometry list of the returned Layer holds all contour records and
\* all hatch records of the call, and when scanContourFirst is true every
\* ContourGeometry precedes every HatchGeometry, when it is false every
\* HatchGeometry precedes every ContourGeometry.
C1_GeometryOrder ==
    HatchReturnedLayer =>
        LET g == ret.value.geometry
        IN  /\ SelectSeq(g, IsContourGeometry) = contourLayerGeometries
            /\ SelectSeq(g, IsHatchGeometry) = hatchLayerGeometries
            /\ \A i, j \in 1..Len(g) :
                 i < j =>
                   IF scanContourFirst
                   THEN ~(IsHatchGeometry(g[i]) /\ IsContourGeometry(g[j]))
                   ELSE ~(IsContourGeometry(g[i]) /\ IsHatchGeometry(g[j]))
C1_Witness ==
    /\ HatchReturnedLayer
    /\ ~scanContourFirst
    /\ contourLayerGeometries # << >>
    /\ hatchLayerGeometries # << >>

\* vectors k, k + 1, ... of coords are, one for one, the unused clipped
\* pieces, start point then end point, with tags that never decrease
RECURSIVE PiecesInTagOrder(_, _, _, _, _)
PiecesInTagOrder(coords, pieces, k, used, prevTag) ==
    IF k > Len(pieces) THEN TRUE
    ELSE \E i \in (1..Len(pieces)) \ used :
           /\ coords[2 * k - 1] = << pieces[i][1][1], pieces[i][1][2] >>
           /\ coords[2 * k] = << pieces[i][2][1], pieces[i][2][2] >>
           /\ pieces[i][1][3] >= prevTag
           /\ PiecesInTagOrder(coords, pieces, k + 1, used \cup {i}, pieces[i][1][3])

\* the clipping stage handed back at least one two-point piece
ClippedSome ==
    /\ lastCall = "hatch"
    /\ clippedPaths.py = "ndarray"
    /\ \A i \in 1..Len(clippedPaths.a) : Len(clippedPaths.a[i]) = 2

\* C2: when clipping yields N >= 1 pieces and no sort method is set, the
\* Layer holds exactly one HatchGeometry of 2N points, points 2k and 2k+1
\* being the two ends of one clipped piece, the pieces' tags non-decreasing.
C2_OneHatchGeometry ==
    (ClippedSome /\ hatchSortMethod = "None") =>
        /\ HatchReturnedLayer
        /\ Len(hatchLayerGeometries) = 1
        /\ Len(SelectSeq(ret.value.geometry, IsHatchGeometry)) = 1
        /\ Len(hatchLayerGeometries[1].coords) = 2 * Len(clippedPaths.a)
        /\ PiecesInTagOrder(hatchLayerGeometries[1].coords, clippedPaths.a, 1, {}, 0)
C2_Witness ==
    /\ ClippedSome
    /\ hatchSortMethod = "None"
    /\ \E k \in 1..(Len(clippedPaths.a) - 1) :
          clippedPaths.a[k][1][3] > clippedPaths.a[k + 1][1][3]

\* the contour records of the rings of one offsetting result
RingRecords(call) ==
    [r \in 1..Len(call.result) |->
        ContourGeometry(call.result[r] \o << call.result[r][1] >>, call.loop)]

\* C3: hatch runs numOuterContours outer then numInnerContours inner
\* iterations; the first iteration offsets the original boundary by the
\* initial offset, every later one by contourOffset more; each surviving ring
\* gives one closed ContourGeometry, subType "outer" or "inner", in order.
C3_ContourLoops ==
    HatchRan =>
        LET n == numOuterContours + numInnerContours
        IN  /\ Len(offsetCalls) = n + 1
            /\ \A k \in 1..n :
                 /\ offsetCalls[k].loop =
                        IF k <= numOuterContours THEN "outer" ELSE "inner"
                 /\ offsetCalls[k].offset = InitialOffset - (k - 1) * contourOffset
                 /\ offsetCalls[k].result =
                        offsetBoundary(boundaryFeature, offsetCalls[k].offset)
            /\ contourLayerGeometries =
                   Concat([k \in 1..n |-> RingRecords(offsetCalls[k])])
            /\ \A k \in 1..Len(contourLayerGeometries) :
                 LET c == contourLayerGeometries[k].coords
                 IN  c[1] = c[Len(c)] /\ Len(c) >= 2
C3_Witness ==
    /\ HatchRan
    /\ numOuterContours = 2
    /\ numInnerContours = 1
    /\ Len(contourLayerGeometries) = 3

\* the running offset when the contour loops are over
LastContourOffset ==
    LET n == numOuterContours + numInnerContours
    IN  IF n > 0 THEN offsetCalls[n].offset ELSE InitialOffset
FinalCall == offsetCalls[Len(offsetCalls)]

\* C4 as stated: the running offset is decreased by volumeOffsetHatch only
\* if some contour record was produced, and not when contours are configured
\* but every ring vanished.
C4_AsStated ==
    HatchRan =>
        FinalCall.offset =
            IF contourLayerGeometries # << >>
            THEN LastContourOffset - volumeOffsetHatch
            ELSE LastContourOffset

\* C4: the running offset is decreased by volumeOffsetHatch exactly when
\* numInnerContours + numOuterContours > 0, whether or not a ring survived,
\* and the boundary that is hatched is the original boundary offset by it.
C4_FinalOffset ==
    HatchRan =>
        /\ FinalCall.loop = "final"
        /\ FinalCall.offset =
              IF numInnerContours + numOuterContours > 0
              THEN LastContourOffset - volumeOffsetHatch
              ELSE LastContourOffset
        /\ curBoundary = offsetBoundary(boundaryFeature, FinalCall.offset)
C4_Witness ==
    /\ HatchRan
    /\ numInnerContours + numOuterContours > 0
    /\ contourLayerGeometries = << >>
    /\ FinalCall.offset = LastContourOffset - volumeOffsetHatch
    /\ curBoundary # << >>


\* C5: for the slice of index L the angle handed to the hatch generator is
\* (hatchAngle + layerAngleIncrement * L) mod 180, less 180 if above 90.
\* The slice just hatched has index layerIndex - 1.
C5_LayerAngle ==
    (lastCall = "hatch" /\ generatorCalls # << >>) =>
        generatorCalls[1].hatchAngle =
            CanonicalAngle(hatchAngle + layerAngleIncrement * (layerIndex - 1))

\* C6: each generator (uniform, stripe, island) returns an even number of
\* rows (x, y, tag), the k-th segment (0-based) having tag k on both of its
\* end points, whatever the rotation and translation.
C6_SegmentTags ==
    gen.done =>
        /\ Len(gen.coords) % 2 = 0
        /\ \A t \in 1..Len(gen.coords) :
             /\ Len(gen.coords[t]) = 3
             /\ gen.coords[t][3] = (t - 1) \div 2
C6_Witness ==
    /\ gen.done
    /\ gen.kind = "island"
    /\ gen.hatchAngle = 45
    /\ Len(gen.coords) >= 8

\* C7: hatch on a boundary without paths returns None and has offset
\* nothing, generated no hatches, clipped nothing and made no geometry.
C7_EmptyBoundary ==
    (lastCall = "hatch" /\ boundaryFeature = << >>) =>
        /\ ret = Returned(PyNone)
        /\ offsetCalls = << >>
        /\ generatorCalls = << >>
        /\ clippedPaths = NoCall
        /\ contourLayerGeometries = << >>
        /\ hatchLayerGeometries = << >>
C7_Witness ==
    /\ lastCall = "hatch"
    /\ boundaryFeature = << >>
    /\ numOuterContours > 0
    /\ hatchingEnabled

\* C8: when offsetting leaves no ring at some contour iteration or for the
\* final boundary, hatch raises nothing and returns a Layer whose contour
\* records are those of the surviving iterations only, with no HatchGeometry
\* (and no hatch generation) if the final boundary is empty.
C8_VanishingOffsets ==
    (HatchRan /\ \E k \in 1..Len(offsetCalls) : offsetCalls[k].result = << >>) =>
        /\ HatchReturnedLayer
        /\ SelectSeq(ret.value.geometry, IsContourGeometry) =
               Concat([k \in 1..(Len(offsetCalls) - 1) |-> RingRecords(offsetCalls[k])])
        /\ curBoundary = << >> =>
               /\ generatorCalls = << >>
               /\ SelectSeq(ret.value.geometry, IsHatchGeometry) = << >>

\* the clipping stage handed back no piece at all
ClippedNothing ==
    /\ lastCall = "hatch"
    /\ clippedPaths.py = "ndarray"
    /\ \A i \in 1..Len(clippedPaths.a) : Len(clippedPaths.a[i]) = 0

\* C9: when clipping the hatch lines against a non-empty boundary yields no
\* segment, hatch raises nothing and returns a Layer without HatchGeometry,
\* holding the contour records only.
C9_NoClippedSegments ==
    ClippedNothing =>
        /\ HatchReturnedLayer
        /\ hatchLayerGeometries = << >>
        /\ ret.value.geometry = contourLayerGeometries

\* C10: a hatch spacing that is not positive is refused when it is set, so
\* the stored spacing is always positive and no hatch generator is ever run
\* with a zero or negative spacing.
C10_PositiveSpacing ==
    /\ hatchDistance > 0
    /\ \A k \in 1..Len(generatorCalls) : generatorCalls[k].hatchSpacing > 0

\* C11: assigning hatchSortMethod something that is neither None nor a
\* BaseSort raises TypeError and leaves the stored sort method as it was;
\* assigning None or a BaseSort returns and stores it; so the stored sort
\* method is always None or a BaseSort.
C11_SortMethodSetter ==
    [][ /\ \A s \in SortObjects :
             SetHatchSortMethod(s) =>
                 IF s \in { "None", "AlternateSort", "LinearSort" }
                 THEN ret' = Returned(PyNone) /\ hatchSortMethod' = s
                 ELSE ret' = Raised("TypeError") /\ hatchSortMethod' = hatchSortMethod
        /\ hatchSortMethod' \in { "None", "AlternateSort", "LinearSort" } ]_vars
C11_Witness ==
    /\ lastCall = "hatchSortMethod"
    /\ ret = Raised("TypeError")
    /\ hatchSortMethod = "AlternateSort"

\* the lattice points strictly inside the disk around the bounding-box
\* centre whose radius is the half diagonal of the bounding box
DiskPoints(paths) ==
    LET bbox == boundaryBoundingBox(paths)
        c == BBoxCentre(bbox)
        r == BBoxRadius(bbox)
        rr == (bbox[3] - c[1]) * (bbox[3] - c[1]) + (bbox[4] - c[2]) * (bbox[4] - c[2])
    IN  { q \in ((c[1] - r)..(c[1] + r)) \X ((c[2] - r)..(c[2] + r)) :
            (q[1] - c[1]) * (q[1] - c[1]) + (q[2] - c[2]) * (q[2] - c[2]) < rr }

\* point q lies beside the segment seg (between its two ends) and its
\* distance to it along the segment's normal is at most num / den times
\* the spacing h:  |cross| / |d| <= h * num / den
NearSegment(q, seg, h, num, den) ==
    LET dx == seg[2][1] - seg[1][1]
        dy == seg[2][2] - seg[1][2]
        ex == q[1] - seg[1][1]
        ey == q[2] - seg[1][2]
        cross == dx * ey - dy * ex
        dot == dx * ex + dy * ey
        dd == dx * dx + dy * dy
    IN  /\ 0 <= dot /\ dot <= dd
        /\ den * den * cross * cross <= num * num * h * h * dd

UniformRan == gen.done /\ gen.kind = "uniform"

\* C12 as stated: every point inside the disk is within h / 2, along the
\* hatch normal, of some segment of the uniform generator.
C12_AsStated ==
    UniformRan =>
        \A q \in DiskPoints(gen.paths) :
            \E k \in 1..(Len(gen.coords) \div 2) :
                NearSegment(q, ReshapeLines(gen.coords)[k], gen.hatchSpacing, 1, 2)

\* C12: every point inside the disk is within h, along the hatch normal, of
\* some segment of the uniform generator (the segments sit at -r + k * h, so
\* the last one may be up to h away from the far edge of the disk).
C12_Coverage ==
    UniformRan =>
        \A q \in DiskPoints(gen.paths) :
            \E k \in 1..(Len(gen.coords) \div 2) :
                NearSegment(q, ReshapeLines(gen.coords)[k], gen.hatchSpacing, 1, 1)
C12_Witness ==
    /\ UniformRan
    /\ gen.hatchAngle = 45
    /\ \E q \in DiskPoints(gen.paths) :
         \A k \in 1..(Len(gen.coords) \div 2) :
            ~NearSegment(q, ReshapeLines(gen.coords)[k], gen.hatchSpacing, 1, 2)

\* the uniform Hatcher of the worked example: a square slice, hatch angle 0,
\* no angle increment, no contours, no spot compensation
SquareAtAngleZero ==
    /\ HatchReturnedLayer
    /\ Len(boundaryFeature) = 1
    /\ hatchAngle = 0 /\ layerAngleIncrement = 0
    /\ numInnerContours = 0 /\ numOuterContours = 0
    /\ spotCompensation = 0

\* every vector of every HatchGeometry keeps coordinate same (1 = x, 2 = y)
\* fixed, lies within the box grown by grow, and the vectors follow each
\* other in increasing order of that coordinate
VectorsAlong(same, grow) ==
    LET b == polygonBoundingBox(boundaryFeature[1])
    IN  \A g \in 1..Len(hatchLayerGeometries) :
          LET c == hatchLayerGeometries[g].coords
          IN  /\ \A k \in 1..(Len(c) \div 2) : c[2 * k - 1][same] = c[2 * k][same]
              /\ \A t \in 1..Len(c) :
                   /\ b[1] - grow <= c[t][1] /\ c[t][1] <= b[3] + grow
                   /\ b[2] - grow <= c[t][2] /\ c[t][2] <= b[4] + grow
              /\ \A k \in 1..((Len(c) \div 2) - 1) : c[2 * k][same] < c[2 * k + 1][same]

\* C13 as stated: every hatch is horizontal (both ends have the same y),
\* lies inside the square, and the hatches go bottom to top.
C13_AsStated == SquareAtAngleZero => VectorsAlong(2, 0)

\* C13: every hatch is vertical (both ends have the same x), lies inside the
\* square grown by the 1e-6 of the initial offset, and the hatches go left
\* to right (increasing x) in tag order.
C13_VerticalHatches == SquareAtAngleZero => VectorsAlong(1, EPS)
C13_Witness ==
    /\ SquareAtAngleZero
    /\ Len(hatchLayerGeometries) = 1
    /\ Len(hatchLayerGeometries[1].coords) >= 4

\* the vectors of a HatchGeometry as a set of end-point pairs
VectorSet(coords) == { { coords[2 * k - 1], coords[2 * k] } : k \in 1..(Len(coords) \div 2) }

\* what a hatch call handed back: the outcome, the order of the record
\* types, the contour records and the vectors of the hatch records.  The
\* order of vectors with equal tags is left out: it is a function of the
\* clip engine's and argsort's input that the model leaves open
CallContents(r) ==
    IF r.kind = "return" /\ r.value.py = "Layer"
    THEN LET g == r.value.geometry
             h == SelectSeq(g, IsHatchGeometry)
         IN  [kind |-> "Layer", error |-> "",
              types |-> [i \in 1..Len(g) |-> g[i].type],
              contours |-> SelectSeq(g, IsContourGeometry),
              vectors |-> [i \in 1..Len(h) |-> VectorSet(h[i].coords)],
              sizes |-> [i \in 1..Len(h) |-> Len(h[i].coords)]]
    ELSE [kind |-> r.kind, error |-> r.error, types |-> << >>, contours |-> << >>,
          vectors |-> << >>, sizes |-> << >>]

PointToward(a, b, t, len) ==
    << a[1] + (t * (b[1] - a[1])) \div len, a[2] + (t * (b[2] - a[2])) \div len >>
\* ceil(L / d) points from a towards b, d apart, the first one at a
SampledFrom(a, b, d) ==
    LET len == Hypot(b[1] - a[1], b[2] - a[2])
    IN  [k \in 1..CeilDiv(len, d) |-> PointToward(a, b, (k - 1) * d, len)]
\* the sampled points of one geometry record: hatch vectors from their end
\* point back towards their start point, contour edges from their first
\* vertex on towards their second
SampledGeometry(rec, d) ==
    IF rec.type = "HatchGeometry"
    THEN Concat([i \in 1..(Len(rec.coords) \div 2) |->
                    SampledFrom(rec.coords[2 * i], rec.coords[2 * i - 1], d)])
    ELSE Concat([i \in 1..(Len(rec.coords) - 1) |->
                    SampledFrom(rec.coords[i], rec.coords[i + 1], d)])
\* point q lies on some vector of the record
OnSomeVector(q, rec) ==
    LET c == rec.coords
        Between(a, b) == /\ SetMin({a[1], b[1]}) <= q[1] /\ q[1] <= SetMax({a[1], b[1]})
                         /\ SetMin({a[2], b[2]}) <= q[2] /\ q[2] <= SetMax({a[2], b[2]})
    IN  IF rec.type = "HatchGeometry"
        THEN \E i \in 1..(Len(c) \div 2) : Between(c[2 * i - 1], c[2 * i])
        ELSE \E i \in 1..(Len(c) - 1) : Between(c[i], c[i + 1])

ExposureReturned == exposure.done /\ exposure.ret.kind = "return"

C17_AsStated ==
    HatchRan =>
        /\ offsetCalls[1].offset = -spotCompensation - EPS
        /\ offsetCalls[1].offset < -spotCompensation

\* C17: the first offset that hatch applies is epsilon - spotCompensation
\* (epsilon = 1e-6), slightly less inward than the spot compensation alone;
\* with spotCompensation = 0 it is +epsilon, i.e. outward.
C17_InitialOffset ==
    HatchRan =>
        /\ offsetCalls[1].offset = EPS - spotCompensation
        /\ offsetCalls[1].offset > -spotCompensation
        /\ offsetCalls[1].result = offsetBoundary(boundaryFeature, EPS - spotCompensation)
        /\ spotCompensation = 0 => offsetCalls[1].offset > 0
C17_Witness ==
    /\ HatchRan
    /\ spotCompensation = 0
    /\ offsetCalls[1].offset = EPS
    /\ Len(boundaryFeature) = 1
    /\ Len(offsetCalls[1].result) = 1
    /\ polygonBoundingBox(offsetCalls[1].result[1])[3] > polygonBoundingBox(boundaryFeature[1])[3]

\* the bounding radius and centre of the paths given to the generator
GenRadius == BBoxRadius(boundaryBoundingBox(gen.paths))
GenCentre == BBoxCentre(boundaryBoundingBox(gen.paths))
\* twice the signed area of the triangle (seg[1], seg[2], q): zero exactly
\* when q lies on the line through the segment
Cross(seg, q) ==
    (seg[2][1] - seg[1][1]) * (q[2] - seg[1][2]) - (seg[2][2] - seg[1][2]) * (q[1] - seg[1][1])

\* C18 as stated: no segment when r = 0, and when h >= 2r > 0 exactly one
\* segment, which passes through the bounding-box centre.
C18_AsStated ==
    UniformRan =>
        /\ GenRadius = 0 => Len(gen.coords) = 0
        /\ (GenRadius > 0 /\ gen.hatchSpacing >= 2 * GenRadius) =>
              /\ Len(gen.coords) = 2
              /\ Cross(gen.coords, GenCentre) = 0

\* C18: no segment when r = 0, and when h >= 2r > 0 exactly one segment,
\* which is the rotated and translated local segment x = -r, i.e. it
\* touches the bounding circle and does not pass through the centre.
C18_SingleSegment ==
    UniformRan =>
        /\ GenRadius = 0 => Len(gen.coords) = 0
        /\ (GenRadius > 0 /\ gen.hatchSpacing >= 2 * GenRadius) =>
              /\ Len(gen.coords) = 2
              /\ gen.coords = RotateTranslate(gen.hatchAngle, GenCentre,
                                  << << -GenRadius, -GenRadius, 0 >>,
                                     << -GenRadius, GenRadius, 0 >> >>)
              /\ Cross(gen.coords, GenCentre) # 0
C18_Witness ==
    /\ UniformRan
    /\ GenRadius > 0
    /\ gen.hatchSpacing >= 2 * GenRadius
    /\ gen.hatchAngle = 0
    /\ Len(gen.coords) = 2
    /\ gen.coords[1][1] = GenCentre[1] - GenRadius

\* a stripe run at angle 0: the local frame is the world frame moved to the
\* bounding-box centre
StripeRanUnrotated == gen.done /\ gen.kind = "stripe" /\ gen.hatchAngle = 0

\* every segment of the run is horizontal in the local frame and spans some
\* stripe i from -r + i * W - o to -r + (i + 1) * W + high
StripesSpan(high) ==
    \A k \in 1..(Len(gen.coords) \div 2) :
        LET a == gen.coords[2 * k - 1]
            b == gen.coords[2 * k]
        IN  /\ a[2] = b[2]
            /\ \E i \in 0..FloorDiv(2 * GenRadius, gen.width) :
                  /\ a[1] - GenCentre[1] = -GenRadius + i * gen.width - gen.overlap
                  /\ b[1] - GenCentre[1] = -GenRadius + (i + 1) * gen.width + high

\* C19 as stated: stripe i spans x from -r + i * W - o to -r + (i + 1) * W + o.
C19_AsStated == StripeRanUnrotated => StripesSpan(gen.overlap)

\* C19: stripe i spans x from -r + i * W - o to -r + (i + 1) * W: it is
\* extended by the overlap on its low side only, so that two adjacent
\* stripes share a band of width o.
C19_StripeSpan == StripeRanUnrotated => StripesSpan(0)
C19_Witness ==
    /\ StripeRanUnrotated
    /\ gen.overlap = 1
    /\ \E k \in 1..((Len(gen.coords) \div 2) - 1) :
          /\ gen.coords[2 * k - 1][1] < gen.coords[2 * k + 1][1]
          /\ gen.coords[2 * k][1] - gen.coords[2 * k + 1][1] = gen.overlap

\* an island run at angle 0: the local frame is the world frame moved to the
\* bounding-box centre
IslandRanUnrotated == gen.done /\ gen.kind = "island" /\ gen.hatchAngle = 0
\* the low end of cell index i along one axis of the local frame; its high
\* end is gen.width + gen.overlap further
CellStart(i) == -GenRadius + i * gen.width - gen.overlap
\* q is a line position of the family that starts at lo + shift, stops before
\* hi + shift and advances by the hatch spacing
LinePosition(q, lo, hi, shift) ==
    /\ lo + shift <= q
    /\ q < hi + shift
    /\ (q - lo - shift) % gen.hatchSpacing = 0
\* the segment from a to b (local frame) is a horizontal line of cell (i, j)
HorizontalIn(a, b, i, j) ==
    /\ a[2] = b[2]
    /\ a[1] = CellStart(i) /\ b[1] = CellStart(i) + gen.width + gen.overlap
    /\ LinePosition(a[2], CellStart(j), CellStart(j) + gen.width + gen.overlap,
                    (gen.offset2 * gen.hatchSpacing) \div 2)
\* the segment from a to b (local frame) is a vertical line of cell (i, j)
VerticalIn(a, b, i, j) ==
    /\ a[1] = b[1]
    /\ a[2] = CellStart(j) /\ b[2] = CellStart(j) + gen.width + gen.overlap
    /\ LinePosition(a[1], CellStart(i), CellStart(i) + gen.width + gen.overlap, 0)

\* C20: every segment of the island generator is a horizontal line spanning
\* [startX, endX] of a cell (i, j) with i + j odd, at a line position shifted
\* by islandOffset * hatchSpacing, or a vertical line spanning [startY, endY]
\* of a cell with i + j even, at a line position that is not shifted.
C20_IslandCells ==
    IslandRanUnrotated =>
        \A k \in 1..(Len(gen.coords) \div 2) :
            LET a == << gen.coords[2 * k - 1][1] - GenCentre[1],
                        gen.coords[2 * k - 1][2] - GenCentre[2] >>
                b == << gen.coords[2 * k][1] - GenCentre[1],
                        gen.coords[2 * k][2] - GenCentre[2] >>
            IN  \E i, j \in 0..FloorDiv(2 * GenRadius, gen.width) :
                    IF (i + j) % 2 = 1 THEN HorizontalIn(a, b, i, j)
                    ELSE VerticalIn(a, b, i, j)
C20_Witness ==
    /\ IslandRanUnrotated
    /\ gen.offset2 = 1
    /\ FloorDiv(2 * GenRadius, gen.width) + 1 >= 2
    /\ \E k \in 1..(Len(gen.coords) \div 2) :
          gen.coords[2 * k - 1][2] = gen.coords[2 * k][2]
    /\ \E k \in 1..(Len(gen.coords) \div 2) :
          gen.coords[2 * k - 1][1] = gen.coords[2 * k][1]

\* the tags of the clipped pieces, in the order the clip engine returned them
PieceTags ==
    [i \in 1..Len(clippedPaths.a) |-> clipperToHatchArray(clippedPaths.a)[i][1][3]]
\* the ascending index order that keeps equal keys in their given order
StableOrder(keys) ==
    CHOOSE id \in ArgSort(keys) :
        \A k \in 1..(Len(keys) - 1) : keys[id[k]] = keys[id[k + 1]] => id[k] < id[k + 1]
\* the points of the HatchGeometry when the pieces are taken in the order id
EmittedInOrder(id) ==
    LET clippedLines == clipperToHatchArray(clippedPaths.a)
    IN  FlattenXY([k \in 1..Len(clippedLines) |-> clippedLines[id[k]]])
\* hatch clipped some pieces and emitted them without a sort method
SortedByTagOnly == ClippedSome /\ hatchSortMethod = "None" /\ HatchReturnedLayer

\* C21 as stated: the post-clip sort is stable, pieces with the same tag keep
\* the relative order in which the clip engine returned them.
C21_AsStated ==
    SortedByTagOnly =>
        hatchLayerGeometries[1].coords = EmittedInOrder(StableOrder(PieceTags))

\* C21: the post-clip sort emits the clipped pieces in ascending order of
\* their tags; it promises no relative order among pieces with the same tag.
C21_SortByTag ==
    SortedByTagOnly =>
        \E id \in ArgSort(PieceTags) :
            /\ hatchLayerGeometries[1].coords = EmittedInOrder(id)
            /\ \A k \in 1..(Len(id) - 1) : PieceTags[id[k]] <= PieceTags[id[k + 1]]
C21_Witness ==
    /\ SortedByTagOnly
    /\ \E i, j \in 1..Len(PieceTags) : i < j /\ PieceTags[i] = PieceTags[j]
    /\ hatchLayerGeometries[1].coords # EmittedInOrder(StableOrder(PieceTags))


\* C22: clipLines given an empty set of segments returns a value of length
\* 0, and hatch, whose generator produced zero segments, raises nothing and
\* returns a Layer without HatchGeometry.
C22_EmptyClipInput ==
    (/\ lastCall = "hatch"
     /\ Len(generatorCalls) = 1
     /\ generatorCalls[1].hatchSpacing # 0
     /\ Len(generateHatching(curBoundary, generatorCalls[1].hatchSpacing,
                             generatorCalls[1].hatchAngle)) = 0) =>
        /\ clippedPaths.py = "ndarray"
        /\ Len(clippedPaths.a) = 0
        /\ HatchReturnedLayer
        /\ SelectSeq(ret.value.geometry, IsHatchGeometry) = << >>

\* C23: the tolerance error() returns, on whichever class it is called, is
\* 1 / S for the scale factor S that offsetBoundary, clipLines and
\* clipContourLines set on the clip engine, whichever class
\* CLIPPER_SCALEFACTOR was last assigned on.
C23_ErrorMatchesEngine ==
    (clipper.tolerance # << >> /\ clipper.engine # << >>) =>
        clipper.tolerance[1] = << 1, clipper.engine[1].scaleFactor >>

====
